---- MODULE Spec2Model ----
(***************************************************************************)
(* AdbPacketDispatcher (libraries/adb/src/socket/dispatcher.ts): the       *)
(* packet dispatcher and socket multiplexer of the ADB wire protocol.      *)
(*                                                                         *)
(* The state is the dispatcher's fields (initializers, sockets, _writer,   *)
(* _disconnected, _abortController), every AdbSocketController it has      *)
(* built, the createSocket invocations in flight, the position of the      *)
(* inbound sink's write callback, and the packets written to the transport.*)
(***************************************************************************)
EXTENDS Integers, Sequences, FiniteSets, TLC

\* ------------------------------------------------------------------ bounds
MaxPackets == 2
MaxAppOps == 2

\* --------------------------------------------------------- program values
\* initializers = new AsyncOperationManager(1): the first id handed out
InitialId == 1

\* AdbCommand
OPEN == "OPEN"
OKAY == "OKAY"
CLSE == "CLSE"
WRTE == "WRTE"
Commands == {OPEN, OKAY, CLSE, WRTE}

\* const EmptyUint8Array = new Uint8Array(0)
EmptyUint8Array == <<>>

\* value given to initializers.resolve by handleOpen (undefined)
Undefined == -1

\* ids the peer uses for its own sockets (0 is the protocol's "no socket")
RemoteIds == {0, 17}

\* the service string the callers ask for ("sh:", a string: a sequence of
\* characters), and the payloads of the peer's OPEN packets (bytes): "s:"
\* without and with the NUL that older peers append
ServiceStrings == {<<"s", "h", ":">>}
PeerServicePayloads == {<<115, 58>>, <<115, 58, 0>>}
DataPayloads == {<<100>>}

\* AdbPacketDispatcherOptions the dispatcher may be constructed with: the
\* legacy pair (checksum and NUL, where "sh:\0" fits maxPayloadSize exactly or
\* exceeds it) and the modern one (neither, "sh:" fits exactly)
OptionSets ==
    {[calculateChecksum |-> TRUE, appendNullToServiceString |-> TRUE,
      maxPayloadSize |-> 4],
     [calculateChecksum |-> TRUE, appendNullToServiceString |-> TRUE,
      maxPayloadSize |-> 3],
     [calculateChecksum |-> FALSE, appendNullToServiceString |-> FALSE,
      maxPayloadSize |-> 3]}

VARIABLES
    options,          \* this.options
    operationId,      \* initializers: next id of the AsyncOperationManager
    pendingResolvers, \* initializers: ids whose resolver is still pending
    promises,         \* initializers: id -> state of the promise add() returned
    sockets,          \* this.sockets: the keys of the Map
    controllers,      \* every AdbSocketController constructed, by localId
    calls,            \* createSocket invocations: sequence of call frames
    handler,          \* the inbound sink's write callback: its position, and the
                      \* packet it is handling while suspended
    pipe,             \* connection.readable.pipeTo(...): its progress
    wire,             \* connection.writable: how many packets it was handed, and
                      \* the one it was handed last
    writerReleased,   \* this._writer.releaseLock() has run
    writableErrored,  \* connection.writable is errored: its writer's write rejects
    aborted,          \* this._abortController.signal.aborted
    disconnected,     \* this._disconnected is resolved
    disposeCount,     \* times dispose() has run
    errorEvents,      \* errors fired on errorEvent
    hookCalls,        \* firings of incomingSocketEvent: the args each listener
                      \* run got (handledBefore) and left (handled)
    nIn,              \* inbound packets given to the sink so far
    appOps            \* calls the application has made so far (createSocket,
                      \* close, write, dispose)

vars == <<options, operationId, pendingResolvers, promises, sockets, controllers,
          calls, handler, pipe, wire, writerReleased, writableErrored, aborted,
          disconnected, disposeCount, errorEvents, hookCalls, nIn, appOps>>

\* ------------------------------------------------------------ pure helpers
RECURSIVE SumBytes(_)
SumBytes(bytes) ==
    IF bytes = <<>> THEN 0 ELSE Head(bytes) + SumBytes(Tail(bytes))

\* calculateChecksum(init): the sum of the payload bytes (a payload of at most
\* maxPayloadSize bytes here sums far below the 32-bit wrap)
CalculateChecksum(payload) == SumBytes(payload)

\* encodeUtf8 / decodeUtf8 on the ASCII characters used here: one byte for
\* each character and back, U+0000 included (it is a character like any other)
CharCode == ("s" :> 115) @@ ("h" :> 104) @@ (":" :> 58) @@ ("NUL" :> 0)
EncodeUtf8(str) == [i \in 1..Len(str) |-> CharCode[str[i]]]
DecodeUtf8(bytes) ==
    [i \in 1..Len(bytes) |-> CHOOSE c \in DOMAIN CharCode : CharCode[c] = bytes[i]]

\* AdbPacketData as received
PacketData(command, arg0, arg1, payload) ==
    [command |-> command, arg0 |-> arg0, arg1 |-> arg1, payload |-> payload]

NoPacket == PacketData("none", 0, 0, <<>>)
NoPacketInit == [command |-> "none", arg0 |-> 0, arg1 |-> 0, payload |-> <<>>, checksum |-> 0]

\* AdbSocketController state (socket.ts): the constructor's options and the
\* controller's own flags.  `inserted` records that sockets.set has been called
\* with this controller (the application then holds its AdbSocket).
Controller(localId, remoteId, localCreated, serviceString, inserted) ==
    [localId |-> localId, remoteId |-> remoteId, localCreated |-> localCreated,
     serviceString |-> serviceString, closed |-> FALSE, writePending |-> FALSE,
     inserted |-> inserted]

\* A pending / resolved / rejected promise of the AsyncOperationManager
Pending == [state |-> "pending", value |-> Undefined]
Resolved(value) == [state |-> "resolved", value |-> value]
Rejected == [state |-> "rejected", value |-> Undefined]

\* ------------------------------------------------------------- sendPacket
\* SendError without the test of the payload's length: a faulty variant, which
\* the property of C16 must tell from the code
SendErrorNoLimit(payload) ==
    IF writerReleased THEN "writer released"
    ELSE IF writableErrored THEN "writable errored"
    ELSE "none"

\* What sendPacket throws for this payload in the current state ("none": the
\* packet is written)
SendError(payload) ==
    IF Len(payload) > options.maxPayloadSize THEN "payload too large"
    ELSE IF writerReleased THEN "writer released"
    ELSE IF writableErrored THEN "writable errored"
    ELSE "none"

\* The AdbPacketInit sendPacket hands to the writer
PacketInit(command, arg0, arg1, payload) ==
    [command |-> command, arg0 |-> arg0, arg1 |-> arg1, payload |-> payload,
     checksum |-> IF options.calculateChecksum THEN CalculateChecksum(payload) ELSE 0]

\* The transport after sendPacket(command, arg0, arg1, payload)
SendPacket(command, arg0, arg1, payload) ==
    IF SendError(payload) = "none"
    THEN [n |-> wire.n + 1, last |-> PacketInit(command, arg0, arg1, payload)]
    ELSE wire

\* ------------------------------------------------------------------- Init
\* (closedBefore is not a field of the program: it remembers, for the claims,
\* whether the socket was already closed when the sink called enqueue)
Idle == [pc |-> "idle", packet |-> NoPacket, error |-> "none", closedBefore |-> FALSE]

Init ==
    /\ options \in OptionSets
    /\ operationId = InitialId
    /\ pendingResolvers = {}
    /\ promises = <<>>
    /\ sockets = {}
    /\ controllers = <<>>
    /\ calls = <<>>
    /\ handler = Idle
    /\ pipe = "piping"
    /\ wire = [n |-> 0, last |-> NoPacketInit]
    /\ writerReleased = FALSE
    /\ writableErrored = FALSE
    /\ aborted = FALSE
    /\ disconnected = FALSE
    /\ disposeCount = 0
    /\ errorEvents = <<>>
    /\ hookCalls = <<>>
    /\ nIn = 0
    /\ appOps = 0

\* The catch block of the sink's write callback: errorEvent.fire(e); throw e.
\* The rejected write errors the pipe unless it is already shutting down.
\* (listeners of a disposed EventEmitter are gone: `heard` records that)
Thrown(packet, e) ==
    [pc |-> "thrown", packet |-> packet, error |-> e, closedBefore |-> FALSE]
Suspended(pc, packet) ==
    [pc |-> pc, packet |-> packet, error |-> "none", closedBefore |-> FALSE]
InEnqueue(packet) ==
    [pc |-> "enqueue", packet |-> packet, error |-> "none",
     closedBefore |-> controllers[packet.arg1].closed]
FireError(e) == Append(errorEvents, [error |-> e, heard |-> disposeCount = 0])
PipeAfterThrow == IF pipe = "piping" THEN "errored" ELSE pipe

\* ---------------------------------------------------------- createSocket
\* NextOperationId handing out the same id again: a faulty variant, which the
\* property of C17 must tell from the code
NextOperationIdSame == operationId

\* initializers.add(): the id handed out is the counter, which then moves on
NextOperationId == operationId + 1

\* createSocket up to its first suspension: append NUL, initializers.add(),
\* sendPacket(OPEN, localId, 0, serviceString)
CreateSocket(service) ==
    LET serviceString == IF options.appendNullToServiceString
                         THEN service \o <<"NUL">> ELSE service
        localId == operationId
        payload == EncodeUtf8(serviceString)
        e == SendError(payload)
    IN  /\ appOps < MaxAppOps
        /\ appOps' = appOps + 1
        /\ operationId' = NextOperationId
        /\ pendingResolvers' = pendingResolvers \cup {localId}
        /\ promises' = promises @@ (localId :> Pending)
        /\ wire' = SendPacket(OPEN, localId, 0, payload)
        /\ calls' = Append(calls,
              [pc |-> IF e = "none" THEN "initializer" ELSE "thrown",
               localId |-> localId, serviceString |-> serviceString,
               error |-> e, remoteId |-> Undefined])
        /\ UNCHANGED <<options, writableErrored, sockets, controllers, handler,
                       pipe, writerReleased, aborted, disconnected,
                       disposeCount, errorEvents, hookCalls, nIn>>

\* createSocket is resumed: the transport has taken the OPEN packet (`await
\* this.sendPacket` returns, which changes nothing) and the promise awaited by
\* `await initializer` is settled
CreateSocketResume(i) ==
    /\ i \in 1..Len(calls)
    /\ calls[i].pc = "initializer"
    /\ LET localId == calls[i].localId
           p == promises[localId]
       IN  /\ p.state # "pending"
           /\ IF p.state = "resolved"
              THEN /\ controllers' = controllers @@
                        (localId :> Controller(localId, p.value, TRUE,
                                               calls[i].serviceString, TRUE))
                   /\ sockets' = sockets \cup {localId}
                   /\ calls' = [calls EXCEPT ![i].pc = "returned",
                                             ![i].remoteId = p.value]
              ELSE /\ calls' = [calls EXCEPT ![i].pc = "thrown",
                                             ![i].error = "Socket open failed"]
                   /\ UNCHANGED <<controllers, sockets>>
    /\ UNCHANGED <<options, writableErrored, operationId, pendingResolvers,
                   promises, handler, pipe, wire, writerReleased, aborted,
                   disconnected, disposeCount, errorEvents, hookCalls, nIn,
                   appOps>>

\* ----------------------------------------------------- inbound handlers
\* Every handler below is the sink's write callback for one packet, up to its
\* first suspension.  nIn is set by Write, which calls them.  Where nothing
\* follows an `await this.sendPacket(...)` but the return, the return is part
\* of the step that sends: it changes no state of the dispatcher.

\* OkResolveValue with the two arguments of resolve swapped: a faulty variant,
\* which the property of C1 must tell from the code
OkResolveValueSwapped(packet) == packet.arg1

\* handleOk: the value the pending open is resolved with
OkResolveValue(packet) == packet.arg0

\* handleOk: the reply to an OKAY that matches nothing
OkStaleReply(packet) == SendPacket(CLSE, packet.arg1, packet.arg0, EmptyUint8Array)

\* Ack leaving the write gate as it is: a faulty variant, which the property
\* of C12 must tell from the code
AckKeepsPending(controller) == controller

\* AdbSocketController.ack(): the pending write is acknowledged
Ack(controller) == [controller EXCEPT !.writePending = FALSE]

\* AdbSocketController.dispose(): forced teardown
SocketDispose(controller) ==
    [controller EXCEPT !.closed = TRUE, !.writePending = FALSE]

HandleOk(packet) ==
    /\ handler' = Idle
    /\ IF packet.arg1 \in pendingResolvers
       THEN \* initializers.resolve(packet.arg1, packet.arg0) returned true
            /\ pendingResolvers' = pendingResolvers \ {packet.arg1}
            /\ promises' = [promises EXCEPT
                               ![packet.arg1] = Resolved(OkResolveValue(packet))]
            /\ UNCHANGED <<controllers, wire>>
       ELSE IF packet.arg1 \in sockets
       THEN /\ controllers' = [controllers EXCEPT
                                  ![packet.arg1] = Ack(controllers[packet.arg1])]
            /\ UNCHANGED <<pendingResolvers, promises, wire>>
       ELSE \* sendPacket is not awaited: its failure reaches nobody
            /\ wire' = OkStaleReply(packet)
            /\ UNCHANGED <<pendingResolvers, promises, controllers>>
    /\ UNCHANGED <<options, writableErrored, operationId, sockets, calls, pipe,
                   writerReleased, aborted, disconnected, disposeCount,
                   errorEvents, hookCalls, appOps>>

\* handleClose: the reply to the peer's CLSE of an established socket
CloseReply(packet) == SendPacket(CLSE, packet.arg1, packet.arg0, EmptyUint8Array)

\* CloseRejectsOpen with the test of arg0 inverted: a faulty variant, which the
\* property of C3 must tell from the code
CloseRejectsOpenInverted(packet) ==
    packet.arg0 # 0 /\ packet.arg1 \in pendingResolvers

\* handleClose: whether the CLSE is the rejection of a pending open
CloseRejectsOpen(packet) == packet.arg0 = 0 /\ packet.arg1 \in pendingResolvers

HandleClose(packet) ==
    IF CloseRejectsOpen(packet)
    THEN \* initializers.reject(packet.arg1, Error('Socket open failed'))
         /\ pendingResolvers' = pendingResolvers \ {packet.arg1}
         /\ promises' = [promises EXCEPT ![packet.arg1] = Rejected]
         /\ handler' = Idle
         /\ UNCHANGED <<options, writableErrored, operationId, sockets,
                        controllers, calls, pipe, wire, writerReleased, aborted,
                        disconnected, disposeCount, errorEvents, hookCalls,
                        appOps>>
    ELSE IF packet.arg1 \in sockets
    THEN IF ~controllers[packet.arg1].closed
         THEN \* await this.sendPacket(Close, packet.arg1, packet.arg0)
              /\ wire' = CloseReply(packet)
              /\ IF SendError(EmptyUint8Array) = "none"
                 THEN /\ handler' = Suspended("sendPacket", packet)
                      /\ UNCHANGED <<errorEvents, pipe>>
                 ELSE /\ handler' = Thrown(packet, SendError(EmptyUint8Array))
                      /\ errorEvents' = FireError(SendError(EmptyUint8Array))
                      /\ pipe' = PipeAfterThrow
              /\ UNCHANGED <<options, writableErrored, operationId,
                             pendingResolvers, promises, sockets, controllers,
                             calls, writerReleased, aborted, disconnected,
                             disposeCount, hookCalls, appOps>>
         ELSE \* socket.dispose(); this.sockets.delete(packet.arg1)
              /\ controllers' = [controllers EXCEPT
                     ![packet.arg1] = SocketDispose(controllers[packet.arg1])]
              /\ sockets' = sockets \ {packet.arg1}
              /\ handler' = Idle
              /\ UNCHANGED <<options, writableErrored, operationId,
                             pendingResolvers, promises, calls, pipe, wire,
                             writerReleased, aborted, disconnected,
                             disposeCount, errorEvents, hookCalls, appOps>>
    ELSE \* ignored
         /\ handler' = Idle
         /\ UNCHANGED <<options, writableErrored, operationId, pendingResolvers,
                        promises, sockets, controllers, calls, pipe, wire,
                        writerReleased, aborted, disconnected, disposeCount,
                        errorEvents, hookCalls, appOps>>

\* HandleWrite sending the OKAY before enqueue is awaited: a faulty variant,
\* which the property of C4 must tell from the code
HandleWriteOkFirst(packet) ==
    /\ handler' = IF packet.arg1 \in sockets
                  THEN InEnqueue(packet) ELSE Idle
    /\ wire' = IF packet.arg1 \in sockets
               THEN SendPacket(OKAY, packet.arg1, packet.arg0, EmptyUint8Array)
               ELSE wire
    /\ UNCHANGED <<options, writableErrored, operationId, pendingResolvers,
                   promises, sockets, controllers, calls, pipe, writerReleased,
                   aborted, disconnected, disposeCount, errorEvents, hookCalls,
                   appOps>>

\* case AdbCommand.Write: the sink calls enqueue and is suspended in it
HandleWrite(packet) ==
    /\ handler' = IF packet.arg1 \in sockets
                  THEN InEnqueue(packet) ELSE Idle
    /\ UNCHANGED <<options, writableErrored, operationId, pendingResolvers,
                   promises, sockets, controllers, calls, pipe, wire,
                   writerReleased, aborted, disconnected, disposeCount,
                   errorEvents, hookCalls, appOps>>

\* case AdbCommand.Write: the reply sent once enqueue has returned
WriteReply(packet) == SendPacket(OKAY, packet.arg1, packet.arg0, EmptyUint8Array)

\* handleOpen: the reply after the incomingSocketEvent listeners have run
OpenReply(handled, localId, remoteId) ==
    IF handled
    THEN SendPacket(OKAY, localId, remoteId, EmptyUint8Array)
    ELSE SendPacket(CLSE, 0, remoteId, EmptyUint8Array)

\* OpenResolved without the resolve that follows the add: a faulty variant,
\* which the property of C11 must tell from the code
OpenNotResolved(localId) == pendingResolvers \cup {localId}

\* handleOpen: the pending opens after initializers.add() has handed out
\* localId and initializers.resolve(localId, undefined) has taken it out again
OpenResolved(localId) == (pendingResolvers \cup {localId}) \ {localId}

\* OpenInserts keeping the socket whatever the listeners said: a faulty
\* variant, which the property of C8 must tell from the code
OpenInsertsAlways(handled) == TRUE

\* handleOpen: whether the new controller is put in this.sockets
OpenInserts(handled) == handled

HandleOpen(packet, handled) ==
    LET localId == operationId
        remoteId == packet.arg0
        serviceString == DecodeUtf8(packet.payload)
    IN  \* initializers.add() then initializers.resolve(localId, undefined)
        /\ operationId' = NextOperationId
        /\ pendingResolvers' = OpenResolved(localId)
        /\ promises' = promises @@ (localId :> Resolved(Undefined))
        /\ controllers' = controllers @@
              (localId :> Controller(localId, remoteId, FALSE, serviceString,
                                     OpenInserts(handled)))
        /\ hookCalls' = Append(hookCalls,
              [handledBefore |-> FALSE, handled |-> handled, localId |-> localId,
               remoteId |-> remoteId, serviceString |-> serviceString])
        /\ sockets' = IF OpenInserts(handled) THEN sockets \cup {localId} ELSE sockets
        /\ wire' = OpenReply(handled, localId, remoteId)
        /\ IF SendError(EmptyUint8Array) = "none"
           THEN /\ handler' = Idle
                /\ UNCHANGED <<errorEvents, pipe>>
           ELSE /\ handler' = Thrown(packet, SendError(EmptyUint8Array))
                /\ errorEvents' = FireError(SendError(EmptyUint8Array))
                /\ pipe' = PipeAfterThrow
        /\ UNCHANGED <<options, writableErrored, calls, writerReleased, aborted,
                       disconnected, disposeCount, appOps>>

\* ------------------------------------------------------- the inbound pipe
\* Packets the peer may send: every local id handed out so far and one that
\* has not been (a packet of an earlier connection)
InboundPackets ==
    {PacketData(c, a0, a1, EmptyUint8Array) :
        c \in {OKAY, CLSE}, a0 \in RemoteIds, a1 \in 1..operationId}
    \cup {PacketData(WRTE, a0, a1, d) :
        a0 \in RemoteIds, a1 \in 1..operationId, d \in DataPayloads}
    \cup {PacketData(OPEN, a0, 0, s) :
        a0 \in RemoteIds \ {0}, s \in PeerServicePayloads}

\* pipeTo calls the sink's write with the next packet: only while the pipe is
\* running and the previous write's promise has settled
SinkReady == pipe = "piping" /\ handler.pc = "idle"

Write(packet) ==
    /\ SinkReady
    /\ nIn' = nIn + 1
    /\ CASE packet.command = OKAY -> HandleOk(packet)
         [] packet.command = CLSE -> HandleClose(packet)
         [] packet.command = WRTE -> HandleWrite(packet)
         [] packet.command = OPEN -> \E handled \in BOOLEAN : HandleOpen(packet, handled)

\* enqueue returns (the application's reader has taken the chunk): the sink
\* goes on to `await this.sendPacket(AdbCommand.OK, packet.arg1, packet.arg0)`
EnqueueReturned ==
    /\ handler.pc = "enqueue"
    /\ LET packet == handler.packet
           e == SendError(EmptyUint8Array)
       IN  /\ wire' = WriteReply(packet)
           /\ IF e = "none"
              THEN /\ handler' = Idle
                   /\ UNCHANGED <<errorEvents, pipe>>
              ELSE /\ handler' = Thrown(packet, e)
                   /\ errorEvents' = FireError(e)
                   /\ pipe' = PipeAfterThrow
    /\ UNCHANGED <<options, writableErrored, operationId, pendingResolvers,
                   promises, sockets, controllers, calls, writerReleased,
                   aborted, disconnected, disposeCount, hookCalls, nIn, appOps>>

\* handleClose after `await this.sendPacket`: the transport has taken the
\* CLSE; socket.dispose() and this.sockets.delete(packet.arg1)
CloseSent ==
    /\ handler.pc = "sendPacket"
    /\ handler' = Idle
    /\ controllers' = [controllers EXCEPT ![handler.packet.arg1] =
                           SocketDispose(controllers[handler.packet.arg1])]
    /\ sockets' = sockets \ {handler.packet.arg1}
    /\ UNCHANGED <<options, writableErrored, operationId, pendingResolvers,
                   promises, calls, pipe, wire, writerReleased, aborted,
                   disconnected, disposeCount, errorEvents, hookCalls, nIn,
                   appOps>>

\* ----------------------------------------------------- the application
\* AdbSocket.close(): marks the socket closed and sends CLSE(localId, remoteId)
SocketClose(id) ==
    /\ appOps < MaxAppOps
    /\ id \in DOMAIN controllers
    /\ controllers[id].inserted
    /\ ~controllers[id].closed
    /\ appOps' = appOps + 1
    /\ controllers' = [controllers EXCEPT ![id].closed = TRUE]
    /\ wire' = SendPacket(CLSE, id, controllers[id].remoteId, EmptyUint8Array)
    /\ UNCHANGED <<options, writableErrored, operationId, pendingResolvers,
                   promises, sockets, calls, handler, pipe, writerReleased,
                   aborted, disconnected, disposeCount, errorEvents, hookCalls,
                   nIn>>

\* AdbSocket.writable: one chunk is sent as WRTE and awaits the peer's OKAY
SocketWrite(id, data) ==
    /\ appOps < MaxAppOps
    /\ id \in DOMAIN controllers
    /\ controllers[id].inserted
    /\ ~controllers[id].closed
    /\ ~controllers[id].writePending
    /\ SendError(data) = "none"
    /\ appOps' = appOps + 1
    /\ controllers' = [controllers EXCEPT ![id].writePending = TRUE]
    /\ wire' = SendPacket(WRTE, id, controllers[id].remoteId, data)
    /\ UNCHANGED <<options, writableErrored, operationId, pendingResolvers,
                   promises, sockets, calls, handler, pipe, writerReleased,
                   aborted, disconnected, disposeCount, errorEvents, hookCalls,
                   nIn>>

\* ---------------------------------------------------------------- dispose
\* dispose(): every socket in the table is disposed, the table cleared, the
\* pipe aborted, the writer released, _disconnected resolved
DisposedControllers ==
    [id \in DOMAIN controllers |->
        IF id \in sockets THEN SocketDispose(controllers[id]) ELSE controllers[id]]

DisposeBody ==
    /\ controllers' = DisposedControllers
    /\ sockets' = {}
    /\ aborted' = TRUE
    /\ writerReleased' = TRUE
    /\ disconnected' = TRUE
    /\ disposeCount' = disposeCount + 1
    /\ UNCHANGED <<options, writableErrored, operationId, pendingResolvers,
                   promises, calls, handler, wire, errorEvents, hookCalls, nIn>>

\* PipeAfterAbort aborting a pipe whatever its state: a faulty variant, which
\* the property of C15 must tell from the code
PipeAfterAbortAlways == "aborted"

\* this._abortController.abort(): the signal stops a running pipe, and does
\* nothing to one that has ended or is already aborted
PipeAfterAbort == IF pipe = "piping" THEN "aborted" ELSE pipe

\* dispose() called by the application
Dispose ==
    /\ appOps < MaxAppOps
    /\ appOps' = appOps + 1
    /\ pipe' = PipeAfterAbort
    /\ DisposeBody

\* connection.readable ends, or fails
ReadableClosed ==
    /\ pipe = "piping"
    /\ pipe' = "closed"
    /\ UNCHANGED <<options, writableErrored, operationId, pendingResolvers,
                   promises, sockets, controllers, calls, handler, wire,
                   writerReleased, aborted, disconnected, disposeCount,
                   errorEvents, hookCalls, nIn, appOps>>

ReadableErrored ==
    /\ pipe = "piping"
    /\ pipe' = "errored"
    /\ UNCHANGED <<options, writableErrored, operationId, pendingResolvers,
                   promises, sockets, controllers, calls, handler, wire,
                   writerReleased, aborted, disconnected, disposeCount,
                   errorEvents, hookCalls, nIn, appOps>>

\* PipeDone with only the fulfilment handler of then(): a faulty variant,
\* which the property of C14 must tell from the code
PipeDoneFulfilledOnly == pipe = "closed"

\* the states of the pipe in which a handler of then() is due: the first when
\* the readable ended, the second when it failed or the pipe was aborted
PipeDone == pipe \in {"closed", "errored", "aborted"}

\* the promise of pipeTo settles once no write is in flight; both of its
\* handlers call this.dispose()
PipeSettled ==
    /\ PipeDone
    /\ handler.pc \in {"idle", "thrown"}
    /\ pipe' = "settled"
    /\ UNCHANGED appOps
    /\ DisposeBody

\* ------------------------------------------------------------------- Next
Next ==
    \/ \E service \in ServiceStrings : CreateSocket(service)
    \/ \E i \in 1..Len(calls) : CreateSocketResume(i)
    \/ \E packet \in InboundPackets : nIn < MaxPackets /\ Write(packet)
    \/ EnqueueReturned
    \/ CloseSent
    \/ \E id \in DOMAIN controllers : SocketClose(id)
    \/ \E id \in DOMAIN controllers, data \in DataPayloads : SocketWrite(id, data)
    \/ Dispose
    \/ ReadableClosed
    \/ ReadableErrored
    \/ PipeSettled

Spec == Init /\ [][Next]_vars

\* ------------------------------------------------- a transport that fails
\* connection.writable becomes errored (the device is gone): from now on
\* `await this._writer.write(init)` rejects.  Once the writer is released the
\* dispatcher has no way to see it.
WritableErrored ==
    /\ ~writableErrored
    /\ ~writerReleased
    /\ writableErrored' = TRUE
    /\ UNCHANGED <<options, operationId, pendingResolvers, promises, sockets,
                   controllers, calls, handler, pipe, wire, writerReleased, aborted,
                   disconnected, disposeCount, errorEvents, hookCalls, nIn,
                   appOps>>

NextTransport ==
    \/ Next
    \/ WritableErrored

\* the dispatcher on a transport whose writable side may fail
SpecTransport == Init /\ [][NextTransport]_vars

\* ----------------------------------------------------------- scheduling
\* What the event loop and the two ends of the dispatcher do in the end: the
\* settled promise of pipeTo runs its handler, the transport takes the CLSE
\* handleClose is waiting on, and the application's reader takes the chunk that
\* enqueue is waiting on (spec 4.3: enqueue may block while the reader is slow)
Fairness ==
    /\ WF_vars(PipeSettled)
    /\ WF_vars(CloseSent)
    /\ WF_vars(EnqueueReturned)

\* The end of the pipe reads none of the options: the fair behaviours are those
\* of a dispatcher constructed with the options of a modern device
InitModern == Init /\ ~options.appendNullToServiceString

FairSpec == InitModern /\ [][Next]_vars /\ Fairness

\* ================================================================ claims
Tables == <<sockets, pendingResolvers>>
Emitted(command, arg0, arg1, payload) ==
    /\ wire'.n = wire.n + 1
    /\ wire'.last = PacketInit(command, arg0, arg1, payload)
Alive == disposeCount = 0 /\ handler.pc # "thrown" /\ pipe = "piping"

\* ---- C1
C1_create ==
    Len(calls') = Len(calls) + 1 =>
        LET c == calls'[Len(calls')]
        IN  /\ c.localId = operationId
            /\ c.localId \notin DOMAIN promises
            /\ c.localId \notin sockets \cup pendingResolvers
            /\ c.localId # 0
            /\ pendingResolvers' = pendingResolvers \cup {c.localId}
            /\ \E service \in ServiceStrings :
                  c.serviceString = IF options.appendNullToServiceString
                                    THEN service \o <<"NUL">> ELSE service
            /\ c.pc # "thrown" =>
                  /\ Emitted(OPEN, c.localId, 0, wire'.last.payload)
                  /\ Len(wire'.last.payload) = Len(c.serviceString)
                  /\ \A k \in 1..Len(c.serviceString) :
                        wire'.last.payload[k] = CharCode[c.serviceString[k]]

C1_okay ==
    nIn' = nIn + 1 => \A packet \in InboundPackets :
        (packet.command = OKAY /\ packet.arg1 \in pendingResolvers /\ Write(packet)) =>
            /\ pendingResolvers' = pendingResolvers \ {packet.arg1}
            /\ promises'[packet.arg1] = Resolved(packet.arg0)
            /\ UNCHANGED <<sockets, controllers, wire>>

C1_returns ==
    \A i \in 1..Len(calls) :
        (calls[i].pc # "returned" /\ calls'[i].pc = "returned") =>
            LET localId == calls[i].localId
            IN  /\ promises[localId].state = "resolved"
                /\ calls'[i].remoteId = promises[localId].value
                /\ localId \in sockets'
                /\ controllers'[localId].localId = localId
                /\ controllers'[localId].remoteId = promises[localId].value

C1_once ==
    \A id \in DOMAIN promises :
        promises[id].state # "pending" => promises'[id] = promises[id]

\* C1: createSocket records a pending open under a fresh localId and sends
\* OPEN(localId, 0, service); the peer's OKAY(remoteId, localId) resolves and
\* removes that pending open, without acknowledging any socket or writing any
\* packet; createSocket then returns a socket with exactly the ids
\* (localId, remoteId), which is in sockets under localId; an open that is
\* settled is never settled again.
C1_LocalOpenAccepted ==
    [][C1_create /\ C1_okay /\ C1_returns /\ C1_once]_vars

\* a createSocket call has returned the socket (1, 17) and it is in the table
C1_Witness ==
    \E i \in 1..Len(calls) :
        /\ calls[i].pc = "returned"
        /\ calls[i].remoteId = 17
        /\ calls[i].localId \in sockets
        /\ controllers[calls[i].localId].remoteId = 17
        /\ nIn = 2

\* ---- C2
\* C2: an OKAY(remoteId, localId) whose localId is in neither pendingOpens nor
\* streams makes the dispatcher write exactly one packet, CLSE(0, remoteId),
\* and leaves both tables unchanged.
C2_StaleOkay ==
    [][nIn' = nIn + 1 => \A packet \in InboundPackets :
          (/\ packet.command = OKAY
           /\ packet.arg1 \notin pendingResolvers \cup sockets
           /\ Write(packet)) =>
              /\ Emitted(CLSE, 0, packet.arg0, EmptyUint8Array)
              /\ UNCHANGED Tables]_vars

\* ---- C3
C3_close ==
    nIn' = nIn + 1 => \A packet \in InboundPackets :
        (/\ packet.command = CLSE /\ packet.arg0 = 0
         /\ packet.arg1 \in pendingResolvers
         /\ Write(packet)) =>
            /\ promises'[packet.arg1] = Rejected
            /\ pendingResolvers' = pendingResolvers \ {packet.arg1}
            /\ packet.arg1 \notin sockets'
            /\ wire' = wire
            /\ Alive'

C3_fails ==
    \A i \in 1..Len(calls) :
        (/\ calls[i].pc = "initializer"
         /\ promises[calls[i].localId].state = "rejected"
         /\ calls'[i] # calls[i]) =>
            /\ calls'[i].pc = "thrown"
            /\ calls'[i].error = "Socket open failed"
            /\ UNCHANGED <<sockets, pendingResolvers, wire>>

C3_gone ==
    \A id \in DOMAIN promises :
        promises[id].state = "rejected" => id \notin sockets \cup pendingResolvers

\* C3: a CLSE(0, localId) for a pending open rejects it: no packet is written,
\* the dispatcher is not disposed and its inbound pipe goes on, the waiting
\* createSocket fails with 'Socket open failed', and from then on localId is in
\* neither sockets nor the pending opens.
C3_LocalOpenRejected ==
    [](C3_gone) /\ [][C3_close /\ C3_fails]_vars

\* a createSocket call has failed with the rejection while the dispatcher lives
C3_Witness ==
    \E i \in 1..Len(calls) :
        /\ calls[i].pc = "thrown"
        /\ calls[i].error = "Socket open failed"
        /\ calls[i].localId \notin sockets \cup pendingResolvers
        /\ Alive
        /\ wire.n = 1

\* ---- C4
C4_dispatch ==
    nIn' = nIn + 1 => \A packet \in InboundPackets :
        (packet.command = WRTE /\ Write(packet)) =>
            /\ wire' = wire
            /\ UNCHANGED <<sockets, controllers, pendingResolvers, promises>>
            /\ handler' = IF packet.arg1 \in sockets
                          THEN InEnqueue(packet) ELSE Idle

C4_blocked ==
    (handler.pc = "enqueue" /\ handler'.pc = "enqueue") =>
        (wire' = wire \/ wire'.last.command # OKAY)

C4_returned ==
    (handler.pc = "enqueue" /\ handler'.pc # "enqueue") =>
        IF writerReleased
        THEN wire' = wire /\ handler'.pc = "thrown"
        ELSE /\ Emitted(OKAY, handler.packet.arg1, handler.packet.arg0, EmptyUint8Array)
             /\ handler' = Idle

\* C4: a WRTE(remoteId, localId) for a socket in the table suspends the sink in
\* enqueue and writes nothing; no OKAY reaches the transport while enqueue has
\* not returned; when it returns exactly one OKAY(localId, remoteId) is written
\* (none when the writer has been released meanwhile: the handler then fails);
\* a WRTE for a localId not in the table writes nothing and changes no table.
C4_WriteAckOrdering ==
    [][C4_dispatch /\ C4_blocked /\ C4_returned]_vars

\* the OKAY for a WRTE delivered to a locally created socket has been written
C4_Witness ==
    /\ wire.last.command = OKAY
    /\ wire.last.arg0 \in sockets
    /\ controllers[wire.last.arg0].localCreated
    /\ wire.last.arg1 = controllers[wire.last.arg0].remoteId
    /\ handler.pc = "idle"

\* ---- C5
\* C5: when the socket has become closed, or has left the table, while the sink
\* was suspended in enqueue for it, no OKAY is written for that WRTE once
\* enqueue returns.
C5_NoOkayAfterClose ==
    [][(/\ handler.pc = "enqueue"
        /\ handler'.pc # "enqueue"
        /\ ~handler.closedBefore
        /\ \/ controllers[handler.packet.arg1].closed
           \/ handler.packet.arg1 \notin sockets) => wire' = wire]_vars

\* ---- C6
\* the packets the peer may send to local id B
PacketsFor(B) ==
    {packet \in InboundPackets :
        packet.arg1 = B /\ packet.command \in {WRTE, OKAY, CLSE}}

\* C6: while the sink is suspended in enqueue for socket A and the pipe is
\* running, a packet for another live id B (a socket in the table or a pending
\* open) can be given to its handler.
C6_CrossStreamIndependence ==
    (handler.pc = "enqueue" /\ pipe = "piping") =>
        \A B \in (sockets \cup pendingResolvers) \ {handler.packet.arg1} :
            ENABLED (\E packet \in PacketsFor(B) : Write(packet))

\* ---- C7
C7_reply ==
    nIn' = nIn + 1 => \A packet \in InboundPackets :
        (/\ packet.command = CLSE
         /\ packet.arg1 \in sockets
         /\ ~(packet.arg0 = 0 /\ packet.arg1 \in pendingResolvers)
         /\ Write(packet)) =>
            IF controllers[packet.arg1].closed
            THEN /\ wire' = wire
                 /\ sockets' = sockets \ {packet.arg1}
                 /\ controllers'[packet.arg1].closed
            ELSE /\ Emitted(CLSE, packet.arg1, controllers[packet.arg1].remoteId,
                            EmptyUint8Array)
                 /\ handler'.pc = "sendPacket"

C7_remove ==
    (handler.pc = "sendPacket" /\ handler'.pc # "sendPacket") =>
        /\ sockets' = sockets \ {handler.packet.arg1}
        /\ controllers'[handler.packet.arg1].closed
        /\ wire' = wire

C7_ignore ==
    nIn' = nIn + 1 => \A packet \in InboundPackets :
        (/\ packet.command = CLSE
         /\ packet.arg1 \notin sockets \cup pendingResolvers
         /\ Write(packet)) =>
            UNCHANGED <<wire, sockets, pendingResolvers, controllers, promises>>

\* C7: a CLSE naming a socket in the table (and not rejecting a pending open) is
\* answered with CLSE(localId, remoteId), the socket's own ids, exactly when the
\* socket is not closed yet; the socket is then disposed and removed from the
\* table; a CLSE naming neither a pending open nor a socket writes nothing and
\* changes nothing.
C7_PeerClose ==
    [][C7_reply /\ C7_remove /\ C7_ignore]_vars

\* ---- C8
C8_open(packet, handled) ==
    LET localId == operationId
    IN  /\ Len(hookCalls') = Len(hookCalls) + 1
        /\ ~hookCalls'[Len(hookCalls')].handledBefore
        /\ hookCalls'[Len(hookCalls')].handled = handled
        /\ UNCHANGED pendingResolvers
        /\ IF handled
           THEN /\ localId \notin sockets \cup pendingResolvers
                /\ localId \notin DOMAIN controllers
                /\ localId # 0
                /\ sockets' = sockets \cup {localId}
                /\ controllers'[localId].localId = localId
                /\ controllers'[localId].remoteId = packet.arg0
                /\ Emitted(OKAY, localId, packet.arg0, EmptyUint8Array)
           ELSE /\ sockets' = sockets
                /\ Emitted(CLSE, 0, packet.arg0, EmptyUint8Array)

\* C8: for an inbound OPEN(remoteId) the incomingSocketEvent is fired once, with
\* handled = false; when a listener sets handled the new socket enters the table
\* under a fresh localId and exactly OKAY(localId, remoteId) is written;
\* otherwise exactly CLSE(0, remoteId) is written and the table and the pending
\* opens are as before.
C8_PeerOpen ==
    [][nIn' = nIn + 1 => \A packet \in InboundPackets : \A handled \in BOOLEAN :
          (/\ packet.command = OPEN
           /\ SinkReady /\ nIn' = nIn + 1
           /\ HandleOpen(packet, handled)) => C8_open(packet, handled)]_vars

\* one OPEN has been accepted and its socket is in the table, a second one has
\* been declined and CLSE(0, 17) written for it
C8_Witness ==
    /\ Len(hookCalls) = 2
    /\ hookCalls[1].handled /\ hookCalls[1].localId \in sockets
    /\ ~hookCalls[2].handled /\ hookCalls[2].localId \notin sockets
    /\ wire.n = 2
    /\ wire.last.command = CLSE /\ wire.last.arg0 = 0 /\ wire.last.arg1 = 17

\* ---- C9
\* C9: when dispose() runs while a createSocket call is waiting for the peer's
\* reply to its OPEN, the pending open of that call is completed with an error
\* and is no longer pending.
C9_DisposeCancelsOpens ==
    [][disposeCount' > disposeCount =>
          \A i \in 1..Len(calls) :
              calls[i].pc = "initializer" =>
                  /\ promises'[calls[i].localId].state # "pending"
                  /\ calls[i].localId \notin pendingResolvers']_vars

\* ---- C10
\* C10: once dispose() has run the table is empty and every socket that was ever
\* put in it is closed (so too when disconnected is resolved).
C10_DisposePostcondition ==
    (disposeCount > 0 \/ disconnected) =>
        /\ sockets = {}
        /\ \A id \in DOMAIN controllers :
              controllers[id].inserted => controllers[id].closed

\* ---- C11
\* C11: in every reachable state no localId is both in sockets and among the
\* pending opens.
C11_TableDisjointness == sockets \cap pendingResolvers = {}

\* a socket opened by the peer is in the table while a createSocket call still
\* waits for the reply to its OPEN
C11_Witness ==
    /\ \E id \in sockets : ~controllers[id].localCreated
    /\ \E i \in 1..Len(calls) :
          calls[i].pc = "initializer" /\ calls[i].localId \in pendingResolvers

\* ---- C12
\* a WRTE is written only for a socket with no write awaiting its OKAY, and
\* from then on that socket awaits one
C12_gate ==
    (wire'.n = wire.n + 1 /\ wire'.last.command = WRTE) =>
        LET id == wire'.last.arg0
        IN  /\ id \in DOMAIN controllers
            /\ ~controllers[id].writePending
            /\ controllers'[id].writePending
            /\ wire'.last.arg1 = controllers[id].remoteId

\* the sockets whose awaited OKAY is no longer awaited after the step
C12_released ==
    {id \in DOMAIN controllers :
        /\ controllers[id].writePending
        /\ ~controllers'[id].writePending
        /\ ~controllers'[id].closed}

\* a socket that stays open stops awaiting only when an OKAY addressed to its
\* localId is dispatched, and one OKAY does that for one socket at most
C12_release ==
    /\ Cardinality(C12_released) <= 1
    /\ \A id \in C12_released :
          /\ nIn' = nIn + 1
          /\ \E packet \in InboundPackets :
                packet.command = OKAY /\ packet.arg1 = id /\ Write(packet)

\* an OKAY dispatched to a socket in the table is its ack
C12_ack ==
    nIn' = nIn + 1 => \A packet \in InboundPackets :
        (/\ packet.command = OKAY
         /\ packet.arg1 \in sockets \ pendingResolvers
         /\ Write(packet)) => ~controllers'[packet.arg1].writePending

\* C12: after a WRTE for a socket has been written no further WRTE for that
\* socket is written until an inbound OKAY addressed to its localId has been
\* dispatched to it (ack); each OKAY releases at most one pending write.
C12_StopAndWait ==
    [][C12_gate /\ C12_release /\ C12_ack]_vars

\* the application has written twice to the one socket (opened by the peer),
\* the peer's OKAY has come in between, and the second WRTE awaits its OKAY
C12_Witness ==
    /\ appOps = 2 /\ Len(calls) = 0 /\ disposeCount = 0
    /\ Len(hookCalls) = 1 /\ nIn = 2
    /\ \A id \in DOMAIN controllers : ~controllers[id].closed
    /\ wire.n = 3 /\ wire.last.command = WRTE
    /\ controllers[wire.last.arg0].writePending

\* ---- C13
\* the handler of this packet calls sendPacket before its first suspension, and
\* the write to the transport fails
C13_replyFails(packet) ==
    /\ SendError(EmptyUint8Array) # "none"
    /\ \/ packet.command = OPEN
       \/ /\ packet.command = CLSE
          /\ ~(packet.arg0 = 0 /\ packet.arg1 \in pendingResolvers)
          /\ packet.arg1 \in sockets
          /\ ~controllers[packet.arg1].closed
       \/ /\ packet.command = OKAY
          /\ packet.arg1 \notin pendingResolvers \cup sockets

\* the error is fired on errorEvent and the sink's write is rejected, which
\* stops the pipe
C13_reported ==
    /\ Len(errorEvents') = Len(errorEvents) + 1
    /\ handler'.pc = "thrown"
    /\ pipe' # "piping"

\* C13: when the handler of an inbound OKAY, CLSE, WRTE or OPEN fails, the
\* failed write of its reply packet included, the error is fired on the error
\* event and the inbound pipe stops (which disposes the dispatcher).
C13_HandlerFailure ==
    [][/\ nIn' = nIn + 1 => \A packet \in InboundPackets :
              (C13_replyFails(packet) /\ Write(packet)) => C13_reported
       /\ (/\ handler.pc = "enqueue" /\ handler'.pc # "enqueue"
           /\ SendError(EmptyUint8Array) # "none") => C13_reported]_vars

\* ---- C14
\* disconnected is resolved by dispose() only
C14_notWhileLive ==
    disconnected => (disposeCount > 0 /\ writerReleased /\ aborted)

C15_repeated == disposeCount' > disposeCount /\ disposeCount > 0

\* the repeated call changes nothing: no field of the dispatcher, no socket
\* outside the table (which the first call left empty), no error raised or
\* fired; the pipe changes only when it is the settling pipe that calls
C15_same ==
    /\ UNCHANGED <<options, operationId, pendingResolvers, promises, calls,
                   handler, wire, writerReleased, writableErrored, aborted,
                   disconnected, errorEvents, hookCalls, nIn>>
    /\ sockets' = {}
    /\ \A id \in DOMAIN controllers \ sockets : controllers'[id] = controllers[id]
    /\ pipe' = pipe \/ (pipe' = "settled" /\ appOps' = appOps)

\* disconnected is resolved by the first dispose() and stays as it is
C15_once ==
    /\ disconnected => disconnected'
    /\ (~disconnected /\ disconnected') => (disposeCount = 0 /\ disposeCount' = 1)

\* C15: dispose() called again (by the application, or by the aborted pipe when
\* it settles) leaves the state the first call left, raises and fires no error,
\* and disconnected is resolved exactly once.
C15_DisposeIdempotent ==
    [][(C15_repeated => C15_same) /\ C15_once]_vars

\* the application has called dispose() twice and the aborted pipe a third time
C15_Witness ==
    /\ disposeCount = 3
    /\ appOps = 2
    /\ pipe = "settled"
    /\ disconnected
    /\ sockets = {}

\* ---- C16
\* no packet the transport was given has a payload longer than maxPayloadSize
C16_onWire == Len(wire.last.payload) <= options.maxPayloadSize

\* createSocket, the caller of sendPacket whose payload the application
\* chooses: too long a payload fails the call with 'payload too large', writes
\* nothing and leaves the dispatcher running; any other (one of exactly
\* maxPayloadSize bytes too) is written as it is while the writer is held
C16_send ==
    Len(calls') = Len(calls) + 1 =>
        LET c == calls'[Len(calls')]
            payload == EncodeUtf8(c.serviceString)
        IN  IF Len(payload) > options.maxPayloadSize
            THEN /\ c.pc = "thrown"
                 /\ c.error = "payload too large"
                 /\ wire' = wire
                 /\ UNCHANGED <<sockets, controllers, handler, pipe, writerReleased,
                                aborted, disconnected, disposeCount, errorEvents>>
            ELSE ~writerReleased =>
                    /\ c.pc = "initializer"
                    /\ Emitted(OPEN, c.localId, 0, payload)

\* every packet written carries the checksum the options ask for
C16_written ==
    wire'.n = wire.n + 1 =>
        wire'.last.checksum = IF options.calculateChecksum
                              THEN SumBytes(wire'.last.payload) ELSE 0

\* C16: sendPacket with a payload longer than maxPayloadSize fails to its
\* caller, writes nothing and does not dispose the dispatcher; a payload of at
\* most maxPayloadSize bytes (exactly that many, or none) is written unchanged;
\* so no packet with a longer payload ever reaches the transport.
C16_PayloadBound ==
    [](C16_onWire) /\ [][C16_send /\ C16_written]_vars

\* a createSocket call has failed with 'payload too large', and the dispatcher
\* has gone on to answer a packet of the peer
C16_Witness ==
    /\ \E i \in 1..Len(calls) :
          calls[i].pc = "thrown" /\ calls[i].error = "payload too large"
    /\ Alive
    /\ wire.n = 1
    /\ wire.last.payload = EmptyUint8Array

\* ---- C17
\* the ids handed out so far are 1, 2, ... in that order; 0 is none of them;
\* every entry of either table, every socket and every createSocket call has
\* one of them, and no two calls, and no call and socket opened by the peer,
\* have the same
C17_ids ==
    /\ DOMAIN promises = 1..(operationId - 1)
    /\ 0 \notin sockets \cup pendingResolvers \cup DOMAIN controllers
    /\ sockets \cup pendingResolvers \cup DOMAIN controllers \subseteq DOMAIN promises
    /\ \A id \in DOMAIN controllers : controllers[id].localId = id
    /\ \A i, j \in 1..Len(calls) :
          i # j => calls[i].localId # calls[j].localId
    /\ \A i \in 1..Len(calls) :
          /\ calls[i].localId \in DOMAIN promises
          /\ calls[i].localId \in DOMAIN controllers =>
                controllers[calls[i].localId].localCreated

\* an id is handed out when no entry, socket or promise has it
C17_fresh ==
    operationId' # operationId =>
        /\ operationId' = operationId + 1
        /\ operationId # 0
        /\ operationId \notin sockets \cup pendingResolvers
        /\ operationId \notin DOMAIN promises \cup DOMAIN controllers

\* an OPEN written carries the id just handed out in arg0, and 0 in arg1
C17_open ==
    (wire'.n = wire.n + 1 /\ wire'.last.command = OPEN) =>
        /\ wire'.last.arg0 = operationId
        /\ wire'.last.arg0 # 0
        /\ wire'.last.arg1 = 0

\* C17: every localId handed out, to a createSocket call or for an OPEN of the
\* peer, is not 0, the first is 1, no two entries live at the same time (in
\* sockets and the pending opens together) have the same, and every OPEN
\* written has arg0 # 0 and arg1 = 0.
C17_LocalIdAllocation ==
    [](C17_ids) /\ [][C17_fresh /\ C17_open]_vars

\* the socket of an OPEN of the peer has id 1 and is in the table, a
\* createSocket call has id 2 and its OPEN(2, 0) was the last packet written
C17_Witness ==
    /\ sockets = {1} /\ ~controllers[1].localCreated
    /\ pendingResolvers = {2}
    /\ wire.last.command = OPEN /\ wire.last.arg0 = 2 /\ wire.last.arg1 = 0

\* ---- C18
\* the payload of an OPEN as a string, less one NUL at its end if it has one
C18_expected(payload) ==
    LET str == DecodeUtf8(payload)
    IN  IF str # <<>> /\ str[Len(str)] = "NUL"
        THEN SubSeq(str, 1, Len(str) - 1) ELSE str

\* C18: the serviceString given to the incomingSocketEvent listeners and kept
\* by the new socket is the payload of the OPEN with one NUL at its end removed
\* when it ends in NUL, and the payload as it is otherwise.
C18_ServiceStringDecoding ==
    [][nIn' = nIn + 1 => \A packet \in InboundPackets :
          (packet.command = OPEN /\ Write(packet)) =>
              /\ hookCalls'[Len(hookCalls')].serviceString =
                    C18_expected(packet.payload)
              /\ controllers'[operationId].serviceString =
                    C18_expected(packet.payload)]_vars

\* ---- C19
\* the packet names a socket in the table by arg1, with another remote id in
\* arg0 than the socket's
C19_mismatch(packet) ==
    /\ packet.arg1 \in sockets \ pendingResolvers
    /\ packet.arg0 # controllers[packet.arg1].remoteId

\* C19: a WRTE or OKAY whose arg1 names a socket in the table and whose arg0 is
\* not that socket's remoteId is neither enqueued into the socket nor taken as
\* the ack of its pending write; the OKAY written for a delivered WRTE has the
\* socket's remoteId in arg1.
C19_PairMatching ==
    [][/\ nIn' = nIn + 1 => \A packet \in InboundPackets :
              (/\ packet.command \in {WRTE, OKAY}
               /\ C19_mismatch(packet)
               /\ Write(packet)) =>
                  /\ handler'.pc # "enqueue"
                  /\ controllers'[packet.arg1].writePending =
                        controllers[packet.arg1].writePending
       /\ (handler.pc = "enqueue" /\ wire'.n = wire.n + 1
              /\ wire'.last.command = OKAY) =>
              wire'.last.arg1 = controllers[handler.packet.arg1].remoteId]_vars

\* ---- C20
\* C20: a createSocket call that has failed (its OPEN was not sent, or its open
\* was rejected) has left its localId in neither the pending opens nor
\* sockets, so the pending opens are ids of calls still waiting for the peer.
C20_NoEntryLeftBehind ==
    /\ \A i \in 1..Len(calls) :
          calls[i].pc = "thrown" =>
              calls[i].localId \notin pendingResolvers \cup sockets
    /\ pendingResolvers \subseteq
          {calls[i].localId : i \in {j \in 1..Len(calls) : calls[j].pc = "initializer"}}
====
